---- MODULE Spec2Model ----
(***************************************************************************)
(* Collatz family ABS1 / NON-ABS1 checker (accelerated O+/- operators):    *)
(* collatz_o_operator.py.                                                  *)
(*                                                                         *)
(* Three specifications share the definitions translated from the source: *)
(*   SpecWalk   one call of worker(), one loop iteration per step;         *)
(*   Spec       run_sweep() called twice on the same arguments, first with *)
(*              parallel=False, then with parallel=True;                   *)
(*   SpecCanon  canonical_cycle() applied to bounded cycles.               *)
(*                                                                         *)
(* Python values: None is the empty sequence and a present Optional value  *)
(* x is <<x>>; a str is the sequence of its characters; a dict is a        *)
(* function on its key set; a list or tuple is a sequence.                 *)
(***************************************************************************)
EXTENDS Integers, Sequences, FiniteSets, TLC

VARIABLES type_tag, lo, hi, cap, examples, MAX_SAMPLES_PER_CYCLE, FINGERPRINT_ABS,
          sweep, n0, walk, cyc, cyc2, by_abs, k, fps, accel

vars == <<type_tag, lo, hi, cap, examples, MAX_SAMPLES_PER_CYCLE, FINGERPRINT_ABS,
          sweep, n0, walk, cyc, cyc2, by_abs, k, fps, accel>>

(* ------------------------------ bounds -------------------------------- *)
MaxStart == 10
MaxCap == 4
MaxSpan == 3
MaxCapacity == 2
MaxCycLen == 3

(* ----------------------------- constants ------------------------------ *)
REPORT_CYCLES == TRUE

None == <<>>
Some(x) == <<x>>

Labels == {"ABS1", "NON-ABS1", "CAP"}

ValidTags == { <<"W","+","1">>, <<"W","-","1">>, <<"B","+","1">>, <<"B","-","1">> }
TypeTags == ValidTags \cup { <<"X","+","1">>, <<"W","+","2">>, <<>> }

(* ----------------------------- utilities ------------------------------ *)
abs(x) == IF x < 0 THEN -x ELSE x

RECURSIVE Pow2(_)
Pow2(e) == IF e = 0 THEN 1 ELSE 2 * Pow2(e - 1)

RECURSIVE LowBit(_)
LowBit(x) == IF x % 2 = 1 THEN 0 ELSE 1 + LowBit(x \div 2)

v2(x) == IF abs(x) # 0 THEN LowBit(abs(x)) ELSE 0

O_plus_halves_once(m) == IF m = 0 THEN 1 ELSE (3*m + 1) \div 2

O_plus(m) == IF m = 0 THEN 1 ELSE LET x == 3*m + 1 IN x \div Pow2(v2(x))

O_minus(m) == IF m = 0 THEN -1 ELSE LET x == 3*m - 1 IN x \div Pow2(v2(x))

normalize_initial(start, even_type) ==
    IF start = 0 THEN 1
    ELSE IF start % 2 = 0
         THEN LET e == v2(start)
                  n == start \div Pow2(e)
              IN IF even_type = "B" /\ e % 2 = 1 THEN -n ELSE n
         ELSE start

T_step_accel_uncorrected(n, even_type, odd_sign) ==
    IF odd_sign = 1 THEN O_plus(n) ELSE O_minus(n)

T_step_accel(n, even_type, odd_sign) ==
    LET nxt == IF odd_sign = 1 THEN O_plus(n) ELSE O_minus(n)
    IN IF even_type = "W" THEN nxt
       ELSE LET e == v2(3*n + (IF odd_sign = 1 THEN 1 ELSE -1))
            IN IF e % 2 = 1 THEN -nxt ELSE nxt

endswith(s, suffix) ==
    /\ Len(s) >= Len(suffix)
    /\ SubSeq(s, Len(s) - Len(suffix) + 1, Len(s)) = suffix

\* type_tag[0] raises IndexError on the empty string.
parse_type_raises(tag) == Len(tag) = 0

parse_type(tag) ==
    [even_type |-> IF tag[1] = "W" THEN "W" ELSE "B",
     odd_sign  |-> IF endswith(tag, <<"+","1">>) THEN 1 ELSE -1]

(* ---------------------- A1-stable domain gating ----------------------- *)
is_a1_stable_domain_swapped(tag, fixed_sign) ==
    IF tag \in { <<"B","+","1">>, <<"B","-","1">> } THEN TRUE
    ELSE IF tag = <<"W","+","1">> THEN fixed_sign = 1
    ELSE IF tag = <<"W","-","1">> THEN fixed_sign = 1
    ELSE FALSE

is_a1_stable_domain(tag, fixed_sign) ==
    IF tag \in { <<"B","+","1">>, <<"B","-","1">> } THEN TRUE
    ELSE IF tag = <<"W","+","1">> THEN fixed_sign = 1
    ELSE IF tag = <<"W","-","1">> THEN fixed_sign = -1
    ELSE FALSE

AbsList(c) == [i \in 1..Len(c) |-> abs(c[i])]

is_abs1_loop_from_cycle(cycle, tag) ==
    IF Len(cycle) = 1 /\ cycle[1] \in {1, -1}
    THEN is_a1_stable_domain(tag, IF cycle[1] = 1 THEN 1 ELSE -1)
    ELSE AbsList(cycle) = <<1, 4, 2, 1>>

is_known_small_loop(cycle) ==
    IF Len(cycle) = 1 /\ cycle[1] \in {1, -1} THEN TRUE
    ELSE LET abs_cyc == AbsList(cycle)
         IN IF Len(abs_cyc) = 2 /\ {abs_cyc[i] : i \in 1..2} = {1, 2} THEN TRUE
            ELSE abs_cyc = <<1, 4, 2, 1>>

(* ------------------------ cycle canonicalization ---------------------- *)
\* Python's ordering of two tuples of the same length.
RECURSIVE TupleLess(_, _)
TupleLess(a, b) ==
    IF Len(a) = 0 \/ Len(b) = 0 THEN Len(a) < Len(b)
    ELSE IF a[1] # b[1] THEN a[1] < b[1]
    ELSE TupleLess(Tail(a), Tail(b))

\* cyc[s:] + cyc[:s]
Rotation(c, s) == SubSeq(c, s + 1, Len(c)) \o SubSeq(c, 1, s)

\* candidates, in the order of the loop over s
Candidates(c, abs_mode) ==
    [i \in 1..Len(c) |->
        LET rot == Rotation(c, i - 1)
        IN [key |-> IF abs_mode THEN AbsList(rot) ELSE rot, rot |-> rot]]

UnsortedFirst(cands) == cands[1]

\* candidates.sort(key=...) is stable: element 0 afterwards is the first
\* candidate, in loop order, whose key is minimal.
SortedFirst(cands) ==
    cands[CHOOSE i \in 1..Len(cands) :
            /\ \A j \in 1..Len(cands) : ~TupleLess(cands[j].key, cands[i].key)
            /\ \A j \in 1..(i - 1) : TupleLess(cands[i].key, cands[j].key)]

canonical_cycle_flag_ignored(c, abs_mode) ==
    IF Len(c) = 0 THEN <<>>
    ELSE SortedFirst(Candidates(c, TRUE)).key

canonical_cycle(c, abs_mode) ==
    IF Len(c) = 0 THEN <<>>
    ELSE LET first == SortedFirst(Candidates(c, abs_mode))
         IN IF abs_mode THEN first.key ELSE first.rot

(* ------------------------------ worker -------------------------------- *)
\* args of worker(); MAX_SAMPLES_PER_CYCLE is not among them.
WorkerArgs(start, tag, parsed, step_cap, want_example, report_cycles, fp_abs) ==
    [n0 |-> start, type_tag |-> tag, even_type |-> parsed.even_type,
     odd_sign |-> parsed.odd_sign, cap |-> step_cap, want_example |-> want_example,
     report_cycles |-> report_cycles, fp_abs |-> fp_abs]

\* locals of worker() before the first loop test
WorkerStart(a) ==
    [n |-> normalize_initial(a.n0, a.even_type), seen |-> <<>>, seq |-> <<>>,
     steps |-> 0, hit1 |-> FALSE, pc |-> "loop", ret |-> None]

LoopGuardInclusive(steps, step_cap) == steps <= step_cap

LoopGuard(steps, step_cap) == steps < step_cap

InSeen(w) == w.n \in DOMAIN w.seen

PureCycleWholeLog(w) == w.seq

\* i = seen[n]; cycle = seq[i:]
PureCycle(w) == SubSeq(w.seq, w.seen[w.n] + 1, Len(w.seq))

\* the return inside the loop, taken when n is in seen
CloseCycle(w, a) ==
    LET cycle == PureCycle(w)
        lab == IF is_abs1_loop_from_cycle(cycle, a.type_tag) THEN "ABS1" ELSE "NON-ABS1"
        unknown == a.report_cycles /\ lab = "NON-ABS1" /\ ~is_known_small_loop(cycle)
    IN [lab |-> lab,
        ex |-> IF a.want_example /\ lab \in {"ABS1", "NON-ABS1"}
               THEN Some(<<a.n0, cycle>>) ELSE None,
        hit1 |-> w.hit1 \/ w.n = 1,
        unknown_fp |-> IF unknown THEN Some(canonical_cycle(cycle, a.fp_abs)) ELSE None,
        unknown_cyc |-> IF unknown THEN Some(cycle) ELSE None]

\* the rest of the loop body, taken when n is not in seen
Advance(w, a) ==
    [w EXCEPT !.hit1 = w.hit1 \/ w.n = 1,
              !.seen = [x \in DOMAIN w.seen \cup {w.n} |->
                            IF x = w.n THEN Len(w.seq) ELSE w.seen[x]],
              !.seq = Append(w.seq, w.n),
              !.n = IF w.n % 2 = 0 THEN normalize_initial(w.n, a.even_type)
                    ELSE T_step_accel(w.n, a.even_type, a.odd_sign),
              !.steps = w.steps + 1]

\* one test of the loop condition and what follows it
WalkStep(w, a) ==
    IF LoopGuard(w.steps, a.cap)
    THEN IF InSeen(w)
         THEN [w EXCEPT !.hit1 = w.hit1 \/ w.n = 1, !.pc = "returned",
                        !.ret = Some(CloseCycle(w, a))]
         ELSE Advance(w, a)
    ELSE [w EXCEPT !.pc = "returned",
                   !.ret = Some([lab |-> "CAP", ex |-> None, hit1 |-> w.hit1,
                                 unknown_fp |-> None, unknown_cyc |-> None])]

RECURSIVE WalkRun(_, _)
WalkRun(w, a) == IF w.pc = "returned" THEN w ELSE WalkRun(WalkStep(w, a), a)

worker(a) == WalkRun(WorkerStart(a), a).ret[1]

(* ------------------- idle values of unused variables ------------------ *)
IdleSweep == <<>>
IdleWalk == <<>>
IdleFps == <<>>
IdleAccel == <<>>

SweepIdle == /\ lo = 0 /\ hi = 0 /\ MAX_SAMPLES_PER_CYCLE = 0 /\ sweep = IdleSweep
WalkIdle == n0 = 0 /\ walk = IdleWalk
CanonIdle == cyc = <<>> /\ cyc2 = <<>> /\ by_abs = FALSE /\ k = 0 /\ fps = IdleFps
AccelIdle == accel = IdleAccel

(* --------------------- SpecWalk: one call of worker ------------------- *)
\* the args tuple as run_sweep builds it for one starting value
walk_args ==
    WorkerArgs(n0, type_tag, parse_type(type_tag), cap, examples,
               REPORT_CYCLES, FINGERPRINT_ABS)

InitWalk ==
    /\ type_tag \in TypeTags \ { <<>> }
    /\ cap \in 0..(MaxCap + 2)
    /\ examples \in BOOLEAN
    /\ FINGERPRINT_ABS \in BOOLEAN
    /\ n0 \in (-MaxStart)..MaxStart
    /\ walk = WorkerStart(walk_args)
    /\ SweepIdle /\ CanonIdle /\ AccelIdle

WalkUnchanged ==
    UNCHANGED <<type_tag, lo, hi, cap, examples, MAX_SAMPLES_PER_CYCLE,
                FINGERPRINT_ABS, sweep, n0, cyc, cyc2, by_abs, k, fps, accel>>

WalkClose ==
    /\ walk.pc = "loop" /\ LoopGuard(walk.steps, cap) /\ InSeen(walk)
    /\ walk' = WalkStep(walk, walk_args)
    /\ WalkUnchanged

WalkAdvance ==
    /\ walk.pc = "loop" /\ LoopGuard(walk.steps, cap) /\ ~InSeen(walk)
    /\ walk' = WalkStep(walk, walk_args)
    /\ WalkUnchanged

WalkCap ==
    /\ walk.pc = "loop" /\ ~LoopGuard(walk.steps, cap)
    /\ walk' = WalkStep(walk, walk_args)
    /\ WalkUnchanged

NextWalk == WalkClose \/ WalkAdvance \/ WalkCap

SpecWalk == InitWalk /\ [][NextWalk]_vars

FairSpecWalk == SpecWalk /\ WF_vars(NextWalk)

(* ------------------------------ sweep --------------------------------- *)
add_unknown_cycle_count_gated(registry, fp, starter, c, max_samples) ==
    IF fp = None \/ c = None THEN registry
    ELSE IF fp[1] \notin DOMAIN registry
         THEN [f \in DOMAIN registry \cup {fp[1]} |->
                 IF f = fp[1]
                 THEN [count |-> 1, len |-> Len(c[1]),
                       samples |-> IF starter # None THEN <<starter[1]>> ELSE <<>>,
                       cycle |-> c[1]]
                 ELSE registry[f]]
         ELSE LET info == registry[fp[1]]
              IN IF starter # None /\ Len(info.samples) < max_samples
                 THEN [registry EXCEPT ![fp[1]] =
                         [info EXCEPT !.count = info.count + 1,
                                      !.samples = Append(info.samples, starter[1])]]
                 ELSE registry

add_unknown_cycle(registry, fp, starter, c, max_samples) ==
    IF fp = None \/ c = None THEN registry
    ELSE IF fp[1] \notin DOMAIN registry
         THEN [f \in DOMAIN registry \cup {fp[1]} |->
                 IF f = fp[1]
                 THEN [count |-> 1, len |-> Len(c[1]),
                       samples |-> IF starter # None THEN <<starter[1]>> ELSE <<>>,
                       cycle |-> c[1]]
                 ELSE registry[f]]
         ELSE LET info == registry[fp[1]]
              IN [registry EXCEPT ![fp[1]] =
                    [info EXCEPT !.count = info.count + 1,
                                 !.samples =
                                    IF starter # None /\ Len(info.samples) < max_samples
                                    THEN Append(info.samples, starter[1])
                                    ELSE info.samples]]

\* starter in the sequential branch: ex[0] if ex else n0
StarterSequential(res, start) == Some(IF res.ex # None THEN res.ex[1][1] ELSE start)

\* starter in the parallel branch: ex[0] if ex else None
StarterParallel(res, start) == IF res.ex # None THEN Some(res.ex[1][1]) ELSE None

\* the body both loops of run_sweep share, for one worker result
MergeResult(run, res, starter, want_examples, max_samples) ==
    [run EXCEPT
        !.counts = [run.counts EXCEPT ![res.lab] = run.counts[res.lab] + 1],
        !.hit1_yes = run.hit1_yes + (IF res.hit1 THEN 1 ELSE 0),
        !.hit1_no = IF ~res.hit1 THEN run.hit1_no + 1 ELSE run.hit1_no,
        !.examples_found =
            IF want_examples /\ res.ex # None /\ res.lab \notin DOMAIN run.examples_found
            THEN [l \in DOMAIN run.examples_found \cup {res.lab} |->
                    IF l = res.lab THEN res.ex[1] ELSE run.examples_found[l]]
            ELSE run.examples_found,
        !.cycle_registry =
            IF REPORT_CYCLES
            THEN add_unknown_cycle(run.cycle_registry, res.unknown_fp, starter,
                                   res.unknown_cyc, max_samples)
            ELSE run.cycle_registry]

\* one call of run_sweep, before it is entered
RunStart ==
    [pc |-> "call", even_type |-> "", odd_sign |-> 0,
     counts |-> [l \in Labels |-> 0], hit1_yes |-> 0, hit1_no |-> 0,
     examples_found |-> <<>>, cycle_registry |-> <<>>, pending |-> {}]

sweep_args(run, start) ==
    WorkerArgs(start, type_tag, run, cap, examples, REPORT_CYCLES, FINGERPRINT_ABS)

Init ==
    /\ type_tag \in TypeTags
    /\ lo \in (-MaxStart)..MaxStart
    /\ hi \in (lo - 1)..(lo + MaxSpan)
    /\ cap \in 0..MaxCap
    /\ examples \in BOOLEAN
    /\ MAX_SAMPLES_PER_CYCLE \in 0..MaxCapacity
    /\ FINGERPRINT_ABS \in BOOLEAN
    /\ sweep = [parallel \in BOOLEAN |-> RunStart]
    /\ WalkIdle /\ CanonIdle /\ AccelIdle

SweepUnchanged ==
    UNCHANGED <<type_tag, lo, hi, cap, examples, MAX_SAMPLES_PER_CYCLE,
                FINGERPRINT_ABS, n0, walk, cyc, cyc2, by_abs, k, fps, accel>>

\* run_sweep up to its loop: parse_type, then the empty aggregates; the
\* parallel call is made once the sequential call has ended.
Enter(parallel) ==
    /\ sweep[parallel].pc = "call"
    /\ parallel => sweep[FALSE].pc \in {"done", "error"}
    /\ sweep' = [sweep EXCEPT ![parallel] =
                    IF parse_type_raises(type_tag)
                    THEN [@ EXCEPT !.pc = "error"]
                    ELSE LET parsed == parse_type(type_tag)
                         IN [@ EXCEPT !.pc = "loop",
                                      !.even_type = parsed.even_type,
                                      !.odd_sign = parsed.odd_sign,
                                      !.pending = lo..hi]]
    /\ SweepUnchanged

\* one iteration of: for n0 in range(lo, hi+1)
SequentialIteration ==
    /\ sweep[FALSE].pc = "loop"
    /\ \E start \in sweep[FALSE].pending :
        /\ \A other \in sweep[FALSE].pending : start <= other
        /\ LET run == sweep[FALSE]
               res == worker(sweep_args(run, start))
           IN sweep' = [sweep EXCEPT ![FALSE] =
                  [MergeResult(run, res, StarterSequential(res, start), examples,
                               MAX_SAMPLES_PER_CYCLE)
                     EXCEPT !.pending = run.pending \ {start}]]
    /\ SweepUnchanged

\* one iteration of: for ... in pool.imap_unordered(worker, args_iter)
ParallelIteration ==
    /\ sweep[TRUE].pc = "loop"
    /\ \E start \in sweep[TRUE].pending :
        LET run == sweep[TRUE]
            res == worker(sweep_args(run, start))
        IN sweep' = [sweep EXCEPT ![TRUE] =
               [MergeResult(run, res, StarterParallel(res, start), examples,
                            MAX_SAMPLES_PER_CYCLE)
                  EXCEPT !.pending = run.pending \ {start}]]
    /\ SweepUnchanged

\* the loop is exhausted: the report is printed and run_sweep returns
Report(parallel) ==
    /\ sweep[parallel].pc = "loop"
    /\ sweep[parallel].pending = {}
    /\ sweep' = [sweep EXCEPT ![parallel].pc = "done"]
    /\ SweepUnchanged

Next ==
    \/ \E parallel \in BOOLEAN : Enter(parallel)
    \/ SequentialIteration
    \/ ParallelIteration
    \/ \E parallel \in BOOLEAN : Report(parallel)

Spec == Init /\ [][Next]_vars

(* ---------------- SpecCanon: canonical_cycle on its own ---------------- *)
CycVals == {-2, -1, 1, 2}

RECURSIVE SeqsUpTo(_, _)
SeqsUpTo(S, len) ==
    IF len = 0 THEN { <<>> }
    ELSE LET shorter == SeqsUpTo(S, len - 1)
         IN shorter \cup { Append(q, x) : q \in shorter, x \in S }

\* a closed cycle is seq[i:], a slice of pairwise distinct values
Distinct(c) == \A i, j \in 1..Len(c) : i # j => c[i] # c[j]

Cycles == { c \in SeqsUpTo(CycVals, MaxCycLen) : Len(c) >= 1 /\ Distinct(c) }

InitCanon ==
    /\ cyc \in Cycles
    /\ cyc2 \in Cycles
    /\ by_abs \in BOOLEAN
    /\ k \in 0..(MaxCycLen - 1)
    /\ fps = IdleFps
    /\ type_tag = <<>> /\ cap = 0 /\ examples = FALSE /\ FINGERPRINT_ABS = FALSE
    /\ SweepIdle /\ WalkIdle /\ AccelIdle

\* the cycle seen from another entry point: cyc[s:] + cyc[:s] with s = k mod L
rotate(c, offset) == Rotation(c, offset % Len(c))

Canonicalize ==
    /\ fps = IdleFps
    /\ fps' = [first |-> canonical_cycle(cyc, by_abs),
               second |-> canonical_cycle(cyc2, by_abs),
               rotated |-> canonical_cycle(rotate(cyc, k), by_abs)]
    /\ UNCHANGED <<type_tag, lo, hi, cap, examples, MAX_SAMPLES_PER_CYCLE,
                   FINGERPRINT_ABS, sweep, n0, walk, cyc, cyc2, by_abs, k, accel>>

NextCanon == Canonicalize

SpecCanon == InitCanon /\ [][NextCanon]_vars

(* ------- SpecAccel: the accelerated operators against the raw rule ----- *)
\* figure_tree.py, one forward step of the raw dynamics: an even value is
\* divided by 2 (Wall) or by -2 (Bridge), an odd value goes to 3v + s.
RawStep(v, op, s) ==
    IF v % 2 = 0
    THEN (IF op = "B" THEN v \div (-2) ELSE v \div 2)
    ELSE 3*v + s

InitAccel ==
    /\ type_tag \in TypeTags \ { <<>> }
    /\ n0 \in (-(3 * MaxStart))..(3 * MaxStart)
    /\ accel = [norm |-> None, step |-> None]
    /\ cap = 0 /\ examples = FALSE /\ FINGERPRINT_ABS = FALSE
    /\ walk = IdleWalk
    /\ SweepIdle /\ CanonIdle

AccelUnchanged ==
    UNCHANGED <<type_tag, lo, hi, cap, examples, MAX_SAMPLES_PER_CYCLE,
                FINGERPRINT_ABS, sweep, n0, walk, cyc, cyc2, by_abs, k, fps>>

\* n = normalize_initial(n0, even_type), the first statement of worker
Normalize ==
    /\ accel.norm = None
    /\ accel' = [accel EXCEPT
                    !.norm = Some(normalize_initial(n0, parse_type(type_tag).even_type))]
    /\ AccelUnchanged

\* n = T_step_accel(n, even_type, odd_sign), on an odd value
AccelStep ==
    /\ accel.step = None
    /\ n0 % 2 = 1
    /\ accel' = [accel EXCEPT
                    !.step = Some(T_step_accel(n0, parse_type(type_tag).even_type,
                                               parse_type(type_tag).odd_sign))]
    /\ AccelUnchanged

NextAccel == Normalize \/ AccelStep

SpecAccel == InitAccel /\ [][NextAccel]_vars

(* ============================== claims ================================ *)
Returned == walk.pc = "returned"
Ret == walk.ret[1]
Closed == Returned /\ Ret.lab # "CAP"
BothDone == sweep[FALSE].pc = "done" /\ sweep[TRUE].pc = "done"
Min(a, b) == IF a <= b THEN a ELSE b

\* C1: a sequential and a parallel sweep over the same range, configuration
\* and cap, the parallel results merged in any arrival order, end with the
\* same per-label counts, the same Hit-1 yes/no counts, and registries with
\* the same fingerprints and the same occurrence count per fingerprint.
C1_SeqParSameAggregates ==
    BothDone =>
        /\ sweep[FALSE].counts = sweep[TRUE].counts
        /\ sweep[FALSE].hit1_yes = sweep[TRUE].hit1_yes
        /\ sweep[FALSE].hit1_no = sweep[TRUE].hit1_no
        /\ DOMAIN sweep[FALSE].cycle_registry = DOMAIN sweep[TRUE].cycle_registry
        /\ \A fp \in DOMAIN sweep[FALSE].cycle_registry :
              sweep[FALSE].cycle_registry[fp].count = sweep[TRUE].cycle_registry[fp].count

C1_Witness ==
    /\ BothDone
    /\ sweep[TRUE].counts["NON-ABS1"] >= 2
    /\ sweep[TRUE].counts["CAP"] >= 1
    /\ \E fp \in DOMAIN sweep[TRUE].cycle_registry :
          sweep[TRUE].cycle_registry[fp].count >= 2

C2_Expected(tag, cycle) ==
    IF tag[1] = "B" THEN "ABS1"
    ELSE IF tag = <<"W","+","1">> THEN (IF cycle = <<1>> THEN "ABS1" ELSE "NON-ABS1")
    ELSE (IF cycle = <<-1>> THEN "ABS1" ELSE "NON-ABS1")

\* C2: a walk that closes on the single-element cycle [+1] or [-1] is labelled
\* ABS1 under B+1 and B-1; under W+1 it is ABS1 for [+1] and NON-ABS1 for [-1];
\* under W-1 it is ABS1 for [-1] and NON-ABS1 for [+1].
C2_AttractorGating ==
    (Closed /\ type_tag \in ValidTags /\ PureCycle(walk) \in { <<1>>, <<-1>> })
        => Ret.lab = C2_Expected(type_tag, PureCycle(walk))

C2_Witness ==
    /\ Closed /\ type_tag = <<"W","-","1">> /\ PureCycle(walk) = <<1>>
    /\ Ret.lab = "NON-ABS1"

IsRotationOf(a, b) == Len(a) = Len(b) /\ \E s \in 0..(Len(a) - 1) : Rotation(a, s) = b
Negated(c) == [i \in 1..Len(c) |-> -c[i]]
Fingerprinted == fps # IdleFps

\* C3 (as stated): two structurally distinct cycles never share a fingerprint:
\* with by_abs=False cycles that are not rotations of each other, and with
\* by_abs=True cycles that are neither rotations of each other nor rotations
\* of each other's negation, get different fingerprints.
C3_DistinctCyclesDistinctFingerprints ==
    Fingerprinted =>
        /\ (~by_abs /\ ~IsRotationOf(cyc, cyc2)) => fps.first # fps.second
        /\ (by_abs /\ ~IsRotationOf(cyc, cyc2) /\ ~IsRotationOf(cyc, Negated(cyc2)))
              => fps.first # fps.second

\* C3 (amended): with by_abs=False two cycles that are not rotations of each
\* other get different fingerprints; with by_abs=True two cycles whose
\* element-wise absolute values are not rotations of each other get
\* different fingerprints.
C3_DistinctUpToAbsolute ==
    Fingerprinted =>
        /\ (~by_abs /\ ~IsRotationOf(cyc, cyc2)) => fps.first # fps.second
        /\ (by_abs /\ ~IsRotationOf(AbsList(cyc), AbsList(cyc2)))
              => fps.first # fps.second

C3_Witness ==
    /\ Fingerprinted /\ ~by_abs /\ Len(cyc) = 2
    /\ AbsList(cyc) = AbsList(cyc2) /\ ~IsRotationOf(cyc, cyc2)
    /\ fps.first # fps.second

\* C4: for every non-empty cycle, rotation offset k and by_abs, the
\* fingerprint of the cycle equals the fingerprint of its rotation by k.
C4_RotationInvariant ==
    Fingerprinted => fps.first = fps.rotated

C4_Witness ==
    /\ Fingerprinted /\ Len(cyc) = MaxCycLen /\ k = 1 /\ by_abs
    /\ rotate(cyc, k) # cyc /\ fps.rotated # AbsList(rotate(cyc, k))
    /\ fps.first = fps.rotated

\* C5: after every merge step, for every capacity MAX_SAMPLES_PER_CYCLE >= 0,
\* each registry entry's sample list has length at most MAX_SAMPLES_PER_CYCLE.
C5_SamplesWithinCapacity ==
    \A parallel \in BOOLEAN : \A fp \in DOMAIN sweep[parallel].cycle_registry :
        Len(sweep[parallel].cycle_registry[fp].samples) <= MAX_SAMPLES_PER_CYCLE

\* C6: in both modes and for either value of the examples flag, every
\* discovery of an unknown cycle appends its starting value while the list is
\* below capacity: at the end of a sweep every registry entry holds
\* min(occurrence count, capacity) samples.
C6_SamplesAreMinCountCapacity ==
    \A parallel \in BOOLEAN : sweep[parallel].pc = "done" =>
        \A fp \in DOMAIN sweep[parallel].cycle_registry :
            LET info == sweep[parallel].cycle_registry[fp]
            IN Len(info.samples) = Min(info.count, MAX_SAMPLES_PER_CYCLE)

\* C7: for starting value 0 and each of the four configurations, the value
\* the walk holds after its first step-function application is +1 when
\* sign=+1 and -1 when sign=-1.
C7_ZeroRoutedBySign ==
    (n0 = 0 /\ type_tag \in ValidTags /\ walk.steps = 1)
        => walk.n = parse_type(type_tag).odd_sign

\* C8: a type tag other than "W+1", "W-1", "B+1", "B-1" is rejected when the
\* configuration is parsed: run_sweep ends in an error and no value receives
\* a label or is added to the counts or the registry.
C8_MalformedTagRejected ==
    type_tag \notin ValidTags =>
        \A parallel \in BOOLEAN :
            /\ sweep[parallel].pc \in {"call", "error"}
            /\ \A l \in Labels : sweep[parallel].counts[l] = 0
            /\ DOMAIN sweep[parallel].cycle_registry = {}

\* C9: for every starting integer, configuration and cap >= 0 the walk applies
\* the step function at most cap times, records at most cap values, returns
\* exactly one of the labels ABS1, NON-ABS1, CAP, and does return.
C9_WalkBoundedAndLabelled ==
    /\ [](/\ walk.steps <= cap
          /\ Len(walk.seq) <= cap
          /\ Cardinality(DOMAIN walk.seen) <= cap
          /\ Returned => (Len(walk.ret) = 1 /\ Ret.lab \in Labels))
    /\ <>Returned

C9_Witness ==
    /\ Returned /\ cap = MaxCap /\ walk.steps = cap /\ Len(walk.seq) = cap
    /\ Ret.lab = "CAP"

\* C10: CAP is returned only when the trajectory does not close within cap
\* steps: if one of the first cap step-function applications lands on a value
\* already visited, the result is ABS1 or NON-ABS1, not CAP.
C10_CapOnlyWithoutClosure ==
    (Returned /\ Ret.lab = "CAP") => ~InSeen(walk)

\* C12: for every configuration and every starting value labelled NON-ABS1,
\* the trajectory walked (all recorded values, tail and cycle) contains
\* neither +1 nor -1.
C12_NonAbs1NeverVisitsOne ==
    (Returned /\ type_tag \in ValidTags /\ Ret.lab = "NON-ABS1")
        => \A i \in 1..Len(walk.seq) : walk.seq[i] \notin {1, -1}

Odd(x) == x % 2 = 1
Step(x) == T_step_accel(x, walk_args.even_type, walk_args.odd_sign)

\* C13: a returned closed cycle (label ABS1 or NON-ABS1) is non-empty, its
\* elements are pairwise distinct, the step function applied to each element
\* yields the next element, and applied to the last element yields the first.
C13_ClosedCycleIsACycle ==
    Closed =>
        LET cycle == PureCycle(walk)
        IN /\ Len(cycle) >= 1
           /\ \A i, j \in 1..Len(cycle) : i # j => cycle[i] # cycle[j]
           /\ \A i \in 1..(Len(cycle) - 1) : Step(cycle[i]) = cycle[i + 1]
           /\ Step(cycle[Len(cycle)]) = cycle[1]
           /\ examples => Ret.ex = Some(<<n0, cycle>>)

C13_Witness ==
    /\ Closed /\ Len(PureCycle(walk)) >= 2 /\ Len(PureCycle(walk)) < Len(walk.seq)
    /\ Step(PureCycle(walk)[Len(PureCycle(walk))]) = PureCycle(walk)[1]

\* C15: for every starting integer (zero and negatives included) and every
\* configuration, each value the walk holds or records is an odd nonzero
\* integer, so the even-value re-normalization branch is never taken and no
\* returned cycle contains an even value.
C15_WalkValuesOdd ==
    /\ Odd(walk.n) /\ walk.n # 0
    /\ \A i \in 1..Len(walk.seq) : Odd(walk.seq[i]) /\ walk.seq[i] # 0
    /\ Closed => \A i \in 1..Len(PureCycle(walk)) : Odd(PureCycle(walk)[i])

C15_Witness ==
    /\ Closed /\ n0 < 0 /\ ~Odd(n0) /\ Len(PureCycle(walk)) >= 2
    /\ \A i \in 1..Len(walk.seq) : Odd(walk.seq[i])

\* the first odd value reached from v by the raw rule (v itself when odd)
RECURSIVE RawFirstOdd(_, _, _)
RawFirstOdd(v, op, s) ==
    IF v % 2 = 1 THEN v ELSE RawFirstOdd(RawStep(v, op, s), op, s)

\* C14: for every odd nonzero n and each of the four configurations,
\* T_step_accel(n) is the first odd value the raw dynamics reach from n
\* (n -> 3n + sign once, then the even rule until the value is odd), and
\* normalize_initial(n0) for nonzero n0 is the first odd value reached from
\* n0 by the even rule alone.
C14_AccelEqualsRaw ==
    LET p == parse_type(type_tag)
    IN type_tag \in ValidTags =>
        /\ accel.step # None =>
              accel.step[1] = RawFirstOdd(RawStep(n0, p.even_type, p.odd_sign),
                                          p.even_type, p.odd_sign)
        /\ (accel.norm # None /\ n0 # 0) =>
              accel.norm[1] = RawFirstOdd(n0, p.even_type, p.odd_sign)

C14_Witness ==
    /\ type_tag = <<"B","+","1">> /\ accel.step # None /\ accel.norm # None
    /\ accel.step[1] = -O_plus(n0) /\ abs(n0) > 1
    /\ accel.step[1] = RawFirstOdd(RawStep(n0, "B", 1), "B", 1)

====
